---- MODULE Spec2Model ----
(***************************************************************************)
(* A model of bip300301_messages (src/src/lib.rs): the coinbase message    *)
(* encoder (impl Into<ScriptBuf> for CoinbaseMessage), the nom-based       *)
(* decoders (parse_coinbase_script, parse_op_drivechain,                   *)
(* parse_m8_bmm_request), the CoinbaseBuilder and m6_to_id.                *)
(*                                                                         *)
(* Bytes are integers 0..255, byte strings are sequences of bytes.  A nom  *)
(* IResult is a record: Ok((rest, value)), Err(Error(input, kind)); a Rust *)
(* panic is the third outcome, Panic.  A u64 is four 16-bit limbs, most    *)
(* significant first, so that 64-bit arithmetic is exact.                  *)
(***************************************************************************)
EXTENDS Integers, Sequences, FiniteSets, TLC

VARIABLES
    script,     \* decoder: the bytes handed to a parse function
    message,    \* decoder: the CoinbaseMessage that was encoded into script, if any
    fn,         \* decoder: the last function applied ("new" before any)
    result,     \* decoder: what that function returned
    messages,   \* CoinbaseBuilder.messages
    calls,      \* the builder calls made so far, with their arguments
    outputs,    \* the Vec<TxOut> returned by build()
    built,      \* whether build() has consumed the builder
    m6,         \* m6_to_id: the transaction argument
    previous_treasury_utxo_total, \* m6_to_id: the u64 argument
    overflow_checks, \* whether the build has overflow checks on (debug) or off (release)
    m6_result   \* m6_to_id: the outcome

vars == <<script, message, fn, result, messages, calls, outputs, built,
          m6, previous_treasury_utxo_total, overflow_checks, m6_result>>

decoderVars == <<script, message, fn, result>>
builderVars == <<messages, calls, outputs, built>>
m6Vars == <<m6, previous_treasury_utxo_total, overflow_checks, m6_result>>

----------------------------------------------------------------------------
(* Bounds of the model.                                                    *)

MaxDataLen == 2     \* longest M1 data blob
MaxVotes == 2       \* longest vote vector
MaxExtra == 2       \* most bytes appended after a complete message
MaxRawLen == 3      \* longest arbitrary byte string
MaxAppends == 2     \* most builder calls before build()
MaxOutputs == 2     \* most outputs of an M6 transaction

----------------------------------------------------------------------------
(* Opcodes and the tag registry.                                           *)

OP_RETURN == 106
OP_NOP5 == 180
OP_PUSHBYTES_1 == 1
OP_TRUE == 81
OP_DRIVECHAIN == OP_NOP5

M1_PROPOSE_SIDECHAIN_TAG == <<213, 224, 196, 175>>
M2_ACK_SIDECHAIN_TAG == <<214, 225, 197, 223>>
M3_PROPOSE_BUNDLE_TAG == <<212, 90, 169, 67>>
M4_ACK_BUNDLES_TAG == <<215, 125, 23, 118>>
M7_BMM_ACCEPT_TAG == <<209, 97, 115, 104>>
M8_BMM_REQUEST_TAG == <<0, 191, 0>>

ABSTAIN_ONE_BYTE == 255
ABSTAIN_TWO_BYTES == 65535
ALARM_ONE_BYTE == 254
ALARM_TWO_BYTES == 65534

REPEAT_PREVIOUS_TAG == <<0>>
ONE_BYTE_TAG == <<1>>
TWO_BYTES_TAG == <<2>>
LEADING_BY_50_TAG == <<3>>

HashLen == 32

----------------------------------------------------------------------------
(* The message model.                                                      *)

M1ProposeSidechain(sidechain_number, data) ==
    [type |-> "M1ProposeSidechain", sidechain_number |-> sidechain_number, data |-> data]

M2AckSidechain(sidechain_number, data_hash) ==
    [type |-> "M2AckSidechain", sidechain_number |-> sidechain_number,
     data_hash |-> data_hash]

M3ProposeBundle(sidechain_number, bundle_txid) ==
    [type |-> "M3ProposeBundle", sidechain_number |-> sidechain_number,
     bundle_txid |-> bundle_txid]

RepeatPrevious == [variant |-> "RepeatPrevious"]
OneByte(upvotes) == [variant |-> "OneByte", upvotes |-> upvotes]
TwoBytes(upvotes) == [variant |-> "TwoBytes", upvotes |-> upvotes]
LeadingBy50 == [variant |-> "LeadingBy50"]

M4AckBundles(m4_ack_bundles) ==
    [type |-> "M4AckBundles", m4_ack_bundles |-> m4_ack_bundles]

M7BmmAccept(sidechain_number, sidechain_block_hash) ==
    [type |-> "M7BmmAccept", sidechain_number |-> sidechain_number,
     sidechain_block_hash |-> sidechain_block_hash]

M8BmmRequest(sidechain_number, sidechain_block_hash, prev_mainchain_block_hash) ==
    [type |-> "M8BmmRequest", sidechain_number |-> sidechain_number,
     sidechain_block_hash |-> sidechain_block_hash,
     prev_mainchain_block_hash |-> prev_mainchain_block_hash]

NoMessage == [type |-> "None"]

M4Tag(m4_ack_bundles) ==
    CASE m4_ack_bundles.variant = "RepeatPrevious" -> REPEAT_PREVIOUS_TAG[1]
      [] m4_ack_bundles.variant = "OneByte" -> ONE_BYTE_TAG[1]
      [] m4_ack_bundles.variant = "TwoBytes" -> TWO_BYTES_TAG[1]
      [] m4_ack_bundles.variant = "LeadingBy50" -> LEADING_BY_50_TAG[1]

----------------------------------------------------------------------------
(* nom's combinators on byte slices, and the outcomes of a call.           *)

Ok(rest_, value) == [kind |-> "Ok", rest |-> rest_, value |-> value]
Err(input, code) == [kind |-> "Err", input |-> input, code |-> code]
Panic == [kind |-> "Panic"]
NoResult == [kind |-> "None"]

Drop(n, input) == SubSeq(input, n + 1, Len(input))

tag(t, input) ==
    IF Len(input) >= Len(t) /\ SubSeq(input, 1, Len(t)) = t
    THEN Ok(Drop(Len(t), input), t)
    ELSE Err(input, "Tag")

\* A take that hands back what is there when fewer than n bytes remain.
take_lenient(n, input) ==
    IF Len(input) >= n
    THEN Ok(Drop(n, input), SubSeq(input, 1, n))
    ELSE Ok(<<>>, input)

take(n, input) ==
    IF Len(input) >= n
    THEN Ok(Drop(n, input), SubSeq(input, 1, n))
    ELSE Err(input, "Eof")

rest(input) == Ok(<<>>, input)

fail(input) == Err(input, "Fail")

\* alt((tag(t1), tag(t2), ...)): the first tag that matches, else the last error.
RECURSIVE alt(_, _)
alt(tags, input) ==
    IF Len(tags) = 0 THEN Err(input, "Alt")
    ELSE LET r == tag(Head(tags), input) IN
         IF r.kind = "Ok" \/ Len(tags) = 1 THEN r
         ELSE alt(Tail(tags), input)

\* A many0(take(2)) that fails when a single byte is left over.
RECURSIVE many0_take2_even(_)
many0_take2_even(input) ==
    LET r == take(2, input) IN
    IF r.kind # "Ok" THEN (IF Len(input) = 0 THEN Ok(input, <<>>) ELSE r)
    ELSE LET more == many0_take2_even(r.rest) IN
         IF more.kind # "Ok" THEN more
         ELSE Ok(more.rest, <<r.value>> \o more.value)

\* many0(take(2)): 2-byte chunks until take(2) fails; the failure ends the loop.
RECURSIVE many0_take2(_)
many0_take2(input) ==
    LET r == take(2, input) IN
    IF r.kind # "Ok" THEN Ok(input, <<>>)
    ELSE LET more == many0_take2(r.rest) IN
         Ok(more.rest, <<r.value>> \o more.value)

\* byteorder's BigEndian::read_u16 (panics on a buffer shorter than 2).
read_u16(buf) == buf[1] * 256 + buf[2]

\* u16::to_be_bytes
u16_to_be_bytes(v) == <<v \div 256, v % 256>>

RECURSIVE Flatten(_)
Flatten(seqs) ==
    IF Len(seqs) = 0 THEN <<>> ELSE Head(seqs) \o Flatten(Tail(seqs))

----------------------------------------------------------------------------
(* The encoder: impl Into<ScriptBuf> for CoinbaseMessage.                  *)

Into(m) ==
    CASE m.type = "M1ProposeSidechain" ->
           <<OP_RETURN>> \o M1_PROPOSE_SIDECHAIN_TAG \o <<m.sidechain_number>> \o m.data
      [] m.type = "M2AckSidechain" ->
           <<OP_RETURN>> \o M2_ACK_SIDECHAIN_TAG \o <<m.sidechain_number>> \o m.data_hash
      [] m.type = "M3ProposeBundle" ->
           <<OP_RETURN>> \o M3_PROPOSE_BUNDLE_TAG \o <<m.sidechain_number>> \o m.bundle_txid
      [] m.type = "M4AckBundles" ->
           LET v == m.m4_ack_bundles
               upvotes ==
                   CASE v.variant = "OneByte" -> v.upvotes
                     [] v.variant = "TwoBytes" ->
                          Flatten([i \in 1..Len(v.upvotes) |-> u16_to_be_bytes(v.upvotes[i])])
                     [] OTHER -> <<>>
           IN <<OP_RETURN>> \o M4_ACK_BUNDLES_TAG \o <<M4Tag(v)>> \o upvotes
      [] m.type = "M7BmmAccept" ->
           <<OP_RETURN>> \o M7_BMM_ACCEPT_TAG \o <<m.sidechain_number>>
               \o m.sidechain_block_hash

----------------------------------------------------------------------------
(* The decoders.                                                           *)

parse_m1_propose_sidechain(input) ==
    LET r1 == take(1, input) IN
    IF r1.kind # "Ok" THEN r1
    ELSE IF Len(r1.value) < 1 THEN Panic            \* sidechain_number[0]
    ELSE LET r2 == rest(r1.rest) IN
         Ok(r2.rest, M1ProposeSidechain(r1.value[1], r2.value))

\* A parse_m2_ack_sidechain that rejects bytes after the hash.
parse_m2_ack_sidechain_all_consuming(input) ==
    LET r1 == take(1, input) IN
    IF r1.kind # "Ok" THEN r1
    ELSE LET r2 == take(HashLen, r1.rest) IN
         IF r2.kind # "Ok" THEN r2
         ELSE IF Len(r2.rest) > 0 THEN Err(r2.rest, "Eof")
         ELSE Ok(r2.rest, M2AckSidechain(r1.value[1], r2.value))

parse_m2_ack_sidechain(input) ==
    LET r1 == take(1, input) IN
    IF r1.kind # "Ok" THEN r1
    ELSE IF Len(r1.value) < 1 THEN Panic            \* sidechain_number[0]
    ELSE LET r2 == take(HashLen, r1.rest) IN
         IF r2.kind # "Ok" THEN r2
         ELSE IF Len(r2.value) # HashLen THEN Panic \* try_into().unwrap()
         ELSE Ok(r2.rest, M2AckSidechain(r1.value[1], r2.value))

\* A parse_m3_propose_bundle that zero-pads a short bundle_txid.
parse_m3_propose_bundle_padded(input) ==
    LET r1 == take(1, input) IN
    IF r1.kind # "Ok" THEN r1
    ELSE LET have == IF Len(r1.rest) < HashLen THEN Len(r1.rest) ELSE HashLen
             txid == [i \in 1..HashLen |-> IF i <= have THEN r1.rest[i] ELSE 0]
         IN Ok(Drop(have, r1.rest), M3ProposeBundle(r1.value[1], txid))

parse_m3_propose_bundle(input) ==
    LET r1 == take(1, input) IN
    IF r1.kind # "Ok" THEN r1
    ELSE IF Len(r1.value) < 1 THEN Panic            \* sidechain_number[0]
    ELSE LET r2 == take(HashLen, r1.rest) IN
         IF r2.kind # "Ok" THEN r2
         ELSE IF Len(r2.value) # HashLen THEN Panic \* try_into().unwrap()
         ELSE Ok(r2.rest, M3ProposeBundle(r1.value[1], r2.value))

\* A parse_m4_ack_bundles that rejects bytes after RepeatPrevious / LeadingBy50.
parse_m4_ack_bundles_eof(input) ==
    LET r1 == alt(<<REPEAT_PREVIOUS_TAG, ONE_BYTE_TAG, TWO_BYTES_TAG, LEADING_BY_50_TAG>>,
                  input)
    IN
    IF r1.kind # "Ok" THEN r1
    ELSE IF r1.value = ONE_BYTE_TAG THEN
        Ok(<<>>, M4AckBundles(OneByte(r1.rest)))
    ELSE IF r1.value = TWO_BYTES_TAG THEN
        LET r2 == many0_take2(r1.rest) IN
        Ok(r2.rest,
           M4AckBundles(TwoBytes([i \in 1..Len(r2.value) |-> read_u16(r2.value[i])])))
    ELSE IF Len(r1.rest) > 0 THEN Err(r1.rest, "Eof")
    ELSE IF r1.value = REPEAT_PREVIOUS_TAG THEN Ok(r1.rest, M4AckBundles(RepeatPrevious))
    ELSE Ok(r1.rest, M4AckBundles(LeadingBy50))

parse_m4_ack_bundles(input) ==
    LET r1 == alt(<<REPEAT_PREVIOUS_TAG, ONE_BYTE_TAG, TWO_BYTES_TAG, LEADING_BY_50_TAG>>,
                  input)
    IN
    IF r1.kind # "Ok" THEN r1
    ELSE IF r1.value = REPEAT_PREVIOUS_TAG THEN
        Ok(r1.rest, M4AckBundles(RepeatPrevious))
    ELSE IF r1.value = ONE_BYTE_TAG THEN
        LET r2 == rest(r1.rest) IN
        Ok(r2.rest, M4AckBundles(OneByte(r2.value)))
    ELSE IF r1.value = TWO_BYTES_TAG THEN
        LET r2 == many0_take2(r1.rest) IN
        IF r2.kind # "Ok" THEN r2
        ELSE IF \E i \in 1..Len(r2.value) : Len(r2.value[i]) < 2 THEN Panic \* read_u16
        ELSE Ok(r2.rest,
                M4AckBundles(TwoBytes([i \in 1..Len(r2.value) |-> read_u16(r2.value[i])])))
    ELSE IF r1.value = LEADING_BY_50_TAG THEN
        Ok(r1.rest, M4AckBundles(LeadingBy50))
    ELSE fail(r1.rest)

parse_m7_bmm_accept(input) ==
    LET r1 == take(1, input) IN
    IF r1.kind # "Ok" THEN r1
    ELSE IF Len(r1.value) < 1 THEN Panic            \* sidechain_number[0]
    ELSE LET r2 == take(HashLen, r1.rest) IN
         IF r2.kind # "Ok" THEN r2
         ELSE IF Len(r2.value) # HashLen THEN Panic \* try_into().unwrap()
         ELSE Ok(r2.rest, M7BmmAccept(r1.value[1], r2.value))

\* (dbg!(&op_drivechain_tag) writes to stderr and changes nothing here.)
parse_op_drivechain(input) ==
    LET r0 == tag(<<OP_DRIVECHAIN, OP_PUSHBYTES_1>>, input) IN
    IF r0.kind # "Ok" THEN r0
    ELSE LET r1 == take(1, r0.rest) IN
         IF r1.kind # "Ok" THEN r1
         ELSE IF Len(r1.value) < 1 THEN Panic       \* sidechain_number[0]
         ELSE LET r2 == tag(<<OP_TRUE>>, r1.rest) IN
              IF r2.kind # "Ok" THEN r2
              ELSE Ok(r1.rest, r1.value[1])         \* the OP_TRUE byte is not consumed

\* A parse_coinbase_script that tries the OP_DRIVECHAIN layout before OP_RETURN.
parse_coinbase_script_marker_first(s) ==
    LET d == parse_op_drivechain(s)
        r0 == tag(<<OP_RETURN>>, s)
    IN
    IF d.kind = "Ok"
    THEN Ok(Drop(1, d.rest), [type |-> "ActivationMarker", sidechain_number |-> d.value])
    ELSE IF r0.kind # "Ok" THEN r0
    ELSE LET r1 == alt(<<M1_PROPOSE_SIDECHAIN_TAG, M2_ACK_SIDECHAIN_TAG,
                         M3_PROPOSE_BUNDLE_TAG, M4_ACK_BUNDLES_TAG>>, r0.rest)
         IN
         IF r1.kind # "Ok" THEN r1
         ELSE IF r1.value = M1_PROPOSE_SIDECHAIN_TAG THEN parse_m1_propose_sidechain(r1.rest)
         ELSE IF r1.value = M2_ACK_SIDECHAIN_TAG THEN parse_m2_ack_sidechain(r1.rest)
         ELSE IF r1.value = M3_PROPOSE_BUNDLE_TAG THEN parse_m3_propose_bundle(r1.rest)
         ELSE parse_m4_ack_bundles(r1.rest)

parse_coinbase_script(s) ==
    LET r0 == tag(<<OP_RETURN>>, s) IN
    IF r0.kind # "Ok" THEN r0
    ELSE LET r1 == alt(<<M1_PROPOSE_SIDECHAIN_TAG, M2_ACK_SIDECHAIN_TAG,
                         M3_PROPOSE_BUNDLE_TAG, M4_ACK_BUNDLES_TAG>>, r0.rest)
         IN
         IF r1.kind # "Ok" THEN r1
         ELSE IF r1.value = M1_PROPOSE_SIDECHAIN_TAG THEN parse_m1_propose_sidechain(r1.rest)
         ELSE IF r1.value = M2_ACK_SIDECHAIN_TAG THEN parse_m2_ack_sidechain(r1.rest)
         ELSE IF r1.value = M3_PROPOSE_BUNDLE_TAG THEN parse_m3_propose_bundle(r1.rest)
         ELSE IF r1.value = M4_ACK_BUNDLES_TAG THEN parse_m4_ack_bundles(r1.rest)
         ELSE IF r1.value = M7_BMM_ACCEPT_TAG THEN parse_m7_bmm_accept(r1.rest)
         ELSE fail(r1.rest)

parse_m8_bmm_request(input) ==
    LET r0 == tag(<<OP_RETURN>>, input) IN
    IF r0.kind # "Ok" THEN r0
    ELSE LET ra == tag(M8_BMM_REQUEST_TAG, r0.rest) IN
    IF ra.kind # "Ok" THEN ra
    ELSE LET r1 == take(1, ra.rest) IN
    IF r1.kind # "Ok" THEN r1
    ELSE IF Len(r1.value) < 1 THEN Panic            \* sidechain_number[0]
    ELSE LET r2 == take(HashLen, r1.rest) IN
    IF r2.kind # "Ok" THEN r2
    ELSE LET r3 == take(HashLen, r2.rest) IN
    IF r3.kind # "Ok" THEN r3
    ELSE IF Len(r2.value) # HashLen \/ Len(r3.value) # HashLen THEN Panic \* unwrap()
    ELSE Ok(r3.rest, M8BmmRequest(r1.value[1], r2.value, r3.value))

----------------------------------------------------------------------------
(* u64 arithmetic on four 16-bit limbs, most significant limb first.       *)

LimbBase == 2 ^ 16
Limbs == 4
U64Zero == [i \in 1..Limbs |-> 0]

\* The carry into limb i from the limbs after it (i = 0: the carry out).
RECURSIVE AddCarry(_, _, _)
AddCarry(a, b, i) ==
    IF i = Limbs THEN 0
    ELSE (a[i + 1] + b[i + 1] + AddCarry(a, b, i + 1)) \div LimbBase

wrapping_add(a, b) == [i \in 1..Limbs |-> (a[i] + b[i] + AddCarry(a, b, i)) % LimbBase]
add_overflows(a, b) == AddCarry(a, b, 0) = 1

\* The borrow out of limb i + 1 into limb i (i = 0: the borrow out).
RECURSIVE SubBorrow(_, _, _)
SubBorrow(a, b, i) ==
    IF i = Limbs THEN 0
    ELSE IF a[i + 1] - b[i + 1] - SubBorrow(a, b, i + 1) < 0 THEN 1 ELSE 0

wrapping_sub(a, b) ==
    [i \in 1..Limbs |-> (LimbBase + a[i] - b[i] - SubBorrow(a, b, i)) % LimbBase]
sub_underflows(a, b) == SubBorrow(a, b, 0) = 1

\* A u64 operation's outcome: the wrapped value, and whether it left the range.
Arith(value, overflow) == [value |-> value, overflow |-> overflow]

\* iter().map(|o| o.value).sum(): a left fold of + from 0.
RECURSIVE sum(_, _)
sum(values, acc) ==
    IF Len(values) = 0 THEN acc
    ELSE sum(Tail(values),
             Arith(wrapping_add(acc.value, Head(values)),
                   acc.overflow \/ add_overflows(acc.value, Head(values))))

\* A u64::to_be_bytes that emits the least significant byte first.
u64_to_le_bytes(x) ==
    [i \in 1..(2 * Limbs) |->
        IF i % 2 = 1 THEN x[Limbs - (i - 1) \div 2] % 256
                     ELSE x[Limbs + 1 - i \div 2] \div 256]

\* u64::to_be_bytes
u64_to_be_bytes(x) ==
    [i \in 1..(2 * Limbs) |->
        IF i % 2 = 1 THEN x[(i + 1) \div 2] \div 256 ELSE x[i \div 2] % 256]

----------------------------------------------------------------------------
(* Transactions and m6_to_id.                                              *)

TxOut(value, script_pubkey) == [value |-> value, script_pubkey |-> script_pubkey]

\* Transaction::txid(): a digest of the whole transaction; the model keeps
\* what was hashed.
Txid(tx) == [txid_of |-> tx]

m6_to_id(tx, prev, checks) ==
    IF Len(tx.output) < 1 THEN Panic                 \* m6.output[1..], m6.output[0]
    ELSE
    LET p_total == sum([i \in 1..(Len(tx.output) - 1) |-> tx.output[i + 1].value],
                       Arith(U64Zero, FALSE))
        t_n == tx.output[1].value
        t_n_minus_1 == prev
        d == wrapping_sub(t_n_minus_1, t_n)
        f_total == wrapping_sub(d, p_total.value)
        underflow == sub_underflows(t_n_minus_1, t_n) \/ sub_underflows(d, p_total.value)
        f_total_be_bytes == u64_to_be_bytes(f_total)
        txout == TxOut(U64Zero, <<OP_RETURN>> \o f_total_be_bytes)
        m6_blinded == [input |-> <<>>, output |-> Append(tx.output, txout)]
    IN
    IF checks /\ (p_total.overflow \/ underflow) THEN Panic  \* arithmetic overflow panic
    ELSE Ok(<<>>, Txid(m6_blinded))

----------------------------------------------------------------------------
(* The CoinbaseBuilder.                                                    *)

\* A Vec::push that puts the element in front.
push_front(v, x) == <<x>> \o v

\* Vec::push
push(v, x) == Append(v, x)

new == <<>>

build(msgs) == [i \in 1..Len(msgs) |-> TxOut(U64Zero, Into(msgs[i]))]

propose_sidechain(msgs, sidechain_number, data) ==
    push(msgs, M1ProposeSidechain(sidechain_number, data))

ack_sidechain(msgs, sidechain_number, data_hash) ==
    push(msgs, M2AckSidechain(sidechain_number, data_hash))

propose_bundle(msgs, sidechain_number, bundle_hash) ==
    push(msgs, M3ProposeBundle(sidechain_number, bundle_hash))

ack_bundles(msgs, m4_ack_bundles) ==
    push(msgs, M4AckBundles(m4_ack_bundles))

bmm_accept(msgs, sidechain_number, bmm_hash) ==
    push(msgs, M7BmmAccept(sidechain_number, bmm_hash))

----------------------------------------------------------------------------
(* Inputs of the decoder: sample messages, their encodings, every prefix   *)
(* of an encoding, encodings with bytes appended, and short arbitrary      *)
(* byte strings.                                                           *)

ByteSeqs(S, n) == UNION {[1..k -> S] : k \in 0..n}

SidechainNumbers == {0, 255}
Hashes == {[i \in 1..HashLen |-> i], [i \in 1..HashLen |-> 255]}
DataBytes == {1, OP_RETURN}
OneByteVoteValues == {0, ABSTAIN_ONE_BYTE}
TwoByteVoteValues == {5, ALARM_TWO_BYTES}
ExtraBytes == {0, 2}
RawBytes == {OP_RETURN, OP_DRIVECHAIN, OP_PUSHBYTES_1, 215}

M4Values ==
    {RepeatPrevious, LeadingBy50}
        \cup {OneByte(u) : u \in ByteSeqs(OneByteVoteValues, MaxVotes)}
        \cup {TwoBytes(u) : u \in ByteSeqs(TwoByteVoteValues, MaxVotes)}

Messages ==
    {M1ProposeSidechain(n, d) : n \in SidechainNumbers, d \in ByteSeqs(DataBytes, MaxDataLen)}
        \cup {M2AckSidechain(n, h) : n \in SidechainNumbers, h \in Hashes}
        \cup {M3ProposeBundle(n, h) : n \in SidechainNumbers, h \in Hashes}
        \cup {M4AckBundles(v) : v \in M4Values}
        \cup {M7BmmAccept(n, h) : n \in SidechainNumbers, h \in Hashes}

\* The wire layout of an M8 BMM request (the crate has no encoder for it).
M8Bytes(n, h1, h2) == <<OP_RETURN>> \o M8_BMM_REQUEST_TAG \o <<n>> \o h1 \o h2

\* The OP_DRIVECHAIN script: OP_NOP5 OP_PUSHBYTES_1 <sidechain_number> OP_TRUE.
DrivechainBytes(n) == <<OP_DRIVECHAIN, OP_PUSHBYTES_1, n, OP_TRUE>>

WireScripts ==
    {Into(m) : m \in Messages}
        \cup {M8Bytes(n, h1, h2) : n \in SidechainNumbers, h1 \in Hashes, h2 \in Hashes}
        \cup {DrivechainBytes(n) : n \in SidechainNumbers}
        \cup {<<OP_RETURN>> \o M4_ACK_BUNDLES_TAG \o <<4>>}

Prefixes(s) == {SubSeq(s, 1, k) : k \in 0..Len(s)}
Extensions(s) == {s \o e : e \in ByteSeqs(ExtraBytes, MaxExtra)}

Scripts ==
    UNION {Prefixes(s) \cup Extensions(s) : s \in WireScripts}
        \cup ByteSeqs(RawBytes, MaxRawLen)

----------------------------------------------------------------------------
(* The decoder as a program: a script arrives (or a message is encoded     *)
(* into one), then one of the three public parse functions is applied.     *)

BuilderIdle ==
    /\ messages = <<>>
    /\ calls = <<>>
    /\ outputs = <<>>
    /\ built = FALSE

M6Idle ==
    /\ m6 = [input |-> <<>>, output |-> <<>>]
    /\ previous_treasury_utxo_total = <<0, 0, 0, 0>>
    /\ overflow_checks = FALSE
    /\ m6_result = NoResult

Init ==
    /\ \/ message = NoMessage /\ script \in Scripts
       \/ message \in Messages /\ script = <<>>
    /\ fn = "new"
    /\ result = NoResult
    /\ BuilderIdle
    /\ M6Idle

\* message.into(): the message is serialized into a script.
IntoScriptBuf ==
    /\ fn = "new"
    /\ message # NoMessage
    /\ script' = Into(message)
    /\ fn' = "into"
    /\ UNCHANGED <<message, result>>
    /\ UNCHANGED <<builderVars, m6Vars>>

HasScript == (fn = "new" /\ message = NoMessage) \/ fn = "into"

ParseCoinbaseScript ==
    /\ HasScript
    /\ fn' = "parse_coinbase_script"
    /\ result' = parse_coinbase_script(script)
    /\ UNCHANGED <<script, message>>
    /\ UNCHANGED <<builderVars, m6Vars>>

ParseOpDrivechain ==
    /\ HasScript
    /\ fn' = "parse_op_drivechain"
    /\ result' = parse_op_drivechain(script)
    /\ UNCHANGED <<script, message>>
    /\ UNCHANGED <<builderVars, m6Vars>>

ParseM8BmmRequest ==
    /\ HasScript
    /\ fn' = "parse_m8_bmm_request"
    /\ result' = parse_m8_bmm_request(script)
    /\ UNCHANGED <<script, message>>
    /\ UNCHANGED <<builderVars, m6Vars>>

Next ==
    \/ IntoScriptBuf
    \/ ParseCoinbaseScript
    \/ ParseOpDrivechain
    \/ ParseM8BmmRequest

Spec == Init /\ [][Next]_vars

----------------------------------------------------------------------------
(* The CoinbaseBuilder as a program: new(), appends, then build().         *)

DecoderIdle ==
    /\ script = <<>>
    /\ message = NoMessage
    /\ fn = "new"
    /\ result = NoResult

BuilderSidechainNumbers == {7}
BuilderData == ByteSeqs({1}, MaxDataLen)
BuilderVotes ==
    {RepeatPrevious, LeadingBy50}
        \cup {OneByte(u) : u \in ByteSeqs({ABSTAIN_ONE_BYTE}, MaxVotes)}
        \cup {TwoBytes(u) : u \in ByteSeqs({ABSTAIN_TWO_BYTES}, MaxVotes)}

InitBuilder ==
    /\ messages = new
    /\ calls = <<>>
    /\ outputs = <<>>
    /\ built = FALSE
    /\ DecoderIdle
    /\ M6Idle

CanAppend == ~built /\ Len(messages) < MaxAppends

ProposeSidechain ==
    \E n \in BuilderSidechainNumbers, d \in BuilderData :
        /\ CanAppend
        /\ messages' = propose_sidechain(messages, n, d)
        /\ calls' = Append(calls, [op |-> "propose_sidechain", sidechain_number |-> n,
                                   data |-> d])
        /\ UNCHANGED <<outputs, built, decoderVars, m6Vars>>

AckSidechain ==
    \E n \in BuilderSidechainNumbers, h \in Hashes :
        /\ CanAppend
        /\ messages' = ack_sidechain(messages, n, h)
        /\ calls' = Append(calls, [op |-> "ack_sidechain", sidechain_number |-> n,
                                   hash |-> h])
        /\ UNCHANGED <<outputs, built, decoderVars, m6Vars>>

ProposeBundle ==
    \E n \in BuilderSidechainNumbers, h \in Hashes :
        /\ CanAppend
        /\ messages' = propose_bundle(messages, n, h)
        /\ calls' = Append(calls, [op |-> "propose_bundle", sidechain_number |-> n,
                                   hash |-> h])
        /\ UNCHANGED <<outputs, built, decoderVars, m6Vars>>

AckBundles ==
    \E v \in BuilderVotes :
        /\ CanAppend
        /\ messages' = ack_bundles(messages, v)
        /\ calls' = Append(calls, [op |-> "ack_bundles", m4_ack_bundles |-> v])
        /\ UNCHANGED <<outputs, built, decoderVars, m6Vars>>

BmmAccept ==
    \E n \in BuilderSidechainNumbers, h \in Hashes :
        /\ CanAppend
        /\ messages' = bmm_accept(messages, n, h)
        /\ calls' = Append(calls, [op |-> "bmm_accept", sidechain_number |-> n,
                                   hash |-> h])
        /\ UNCHANGED <<outputs, built, decoderVars, m6Vars>>

\* build(self) consumes the builder.
Build ==
    /\ ~built
    /\ outputs' = build(messages)
    /\ messages' = <<>>
    /\ built' = TRUE
    /\ UNCHANGED <<calls, decoderVars, m6Vars>>

NextBuilder ==
    \/ ProposeSidechain
    \/ AckSidechain
    \/ ProposeBundle
    \/ AckBundles
    \/ BmmAccept
    \/ Build

SpecBuilder == InitBuilder /\ [][NextBuilder]_vars

----------------------------------------------------------------------------
(* m6_to_id as a program: a transaction and a previous treasury total      *)
(* arrive, in a build with or without overflow checks, and m6_to_id runs.  *)

U64(a, b, c, d) == <<a, b, c, d>>
U64Max == [i \in 1..Limbs |-> LimbBase - 1]

U64Values ==
    {U64Zero, U64(0, 0, 0, 1), U64(0, 0, 0, 300), U64(0, 0, 1, 0),
     U64(32768, 0, 0, 0), U64Max}

OutputScripts == {<<>>, <<OP_TRUE>>}
TxOuts == {TxOut(v, s) : v \in U64Values, s \in OutputScripts}
TxIns == {<<>>, <<"treasury_utxo">>}

Transactions ==
    {[input |-> i, output |-> o] : i \in TxIns, o \in ByteSeqs(TxOuts, MaxOutputs)}

InitM6 ==
    /\ m6 \in Transactions
    /\ previous_treasury_utxo_total \in U64Values
    /\ overflow_checks \in BOOLEAN
    /\ m6_result = NoResult
    /\ DecoderIdle
    /\ BuilderIdle

M6ToId ==
    /\ m6_result = NoResult
    /\ m6_result' = m6_to_id(m6, previous_treasury_utxo_total, overflow_checks)
    /\ UNCHANGED <<m6, previous_treasury_utxo_total, overflow_checks>>
    /\ UNCHANGED <<decoderVars, builderVars>>

NextM6 == M6ToId

SpecM6 == InitM6 /\ [][NextM6]_vars

----------------------------------------------------------------------------
(* Claims about the decoder, checked under Spec.                           *)

IsPrefix(p, s) == Len(s) >= Len(p) /\ SubSeq(s, 1, Len(p)) = p

TagLen == 4
\* OP_RETURN, a 4-byte tag, sidechain_number, one 32-byte hash.
FixedLen == 1 + TagLen + 1 + HashLen
\* OP_RETURN, the 3-byte M8 tag, sidechain_number, two 32-byte hashes.
M8Len == 1 + Len(M8_BMM_REQUEST_TAG) + 1 + HashLen + HashLen
\* OP_RETURN, the M4 tag, the sub-tag.
M4HeadLen == 1 + TagLen + 1

Tagged(t) == IsPrefix(<<OP_RETURN>> \o t, script)

\* C1 (as stated; refuted by M7BmmAccept): encoding a message and decoding the
\* script with parse_coinbase_script succeeds and yields the message.
C1_RoundTrip ==
    (fn = "parse_coinbase_script" /\ message # NoMessage)
        => (result.kind = "Ok" /\ result.value = message)

\* The script holds a complete fixed-shape message followed by at least one byte.
C2_Trailing(f, t, len) == fn = f /\ Tagged(t) /\ Len(script) > len

\* C2 (as stated; refuted): a fixed-shape message followed by extra bytes is
\* a decode error.
C2_NoTrailingData ==
    /\ \A t \in {M2_ACK_SIDECHAIN_TAG, M3_PROPOSE_BUNDLE_TAG, M7_BMM_ACCEPT_TAG} :
          C2_Trailing("parse_coinbase_script", t, FixedLen) => result.kind = "Err"
    /\ C2_Trailing("parse_m8_bmm_request", M8_BMM_REQUEST_TAG, M8Len)
          => result.kind = "Err"

\* C2 (amended): AckSidechain and ProposeBundle through parse_coinbase_script,
\* and BmmRequest through parse_m8_bmm_request, followed by extra bytes, decode
\* to the message made of the required fields, and the extra bytes come back
\* as the unconsumed rest; a BmmAccept script is rejected at its tag by
\* parse_coinbase_script, while parse_m7_bmm_accept itself returns the extra
\* bytes after its payload in the same way.
C2_TrailingDataReturned ==
    /\ C2_Trailing("parse_coinbase_script", M2_ACK_SIDECHAIN_TAG, FixedLen) =>
          /\ result.kind = "Ok"
          /\ result.value = M2AckSidechain(script[6], SubSeq(script, 7, FixedLen))
          /\ result.rest = Drop(FixedLen, script)
    /\ C2_Trailing("parse_coinbase_script", M3_PROPOSE_BUNDLE_TAG, FixedLen) =>
          /\ result.kind = "Ok"
          /\ result.value = M3ProposeBundle(script[6], SubSeq(script, 7, FixedLen))
          /\ result.rest = Drop(FixedLen, script)
    /\ C2_Trailing("parse_m8_bmm_request", M8_BMM_REQUEST_TAG, M8Len) =>
          /\ result.kind = "Ok"
          /\ result.value = M8BmmRequest(script[5], SubSeq(script, 6, 5 + HashLen),
                                         SubSeq(script, 6 + HashLen, M8Len))
          /\ result.rest = Drop(M8Len, script)
    /\ C2_Trailing("parse_coinbase_script", M7_BMM_ACCEPT_TAG, FixedLen) =>
          /\ result.kind = "Err"
          /\ result.code = "Tag"
          /\ parse_m7_bmm_accept(Drop(1 + TagLen, script))
                = Ok(Drop(FixedLen, script),
                     M7BmmAccept(script[6], SubSeq(script, 7, FixedLen)))

C2_Witness ==
    /\ C2_Trailing("parse_coinbase_script", M2_ACK_SIDECHAIN_TAG, FixedLen)
    /\ result.kind = "Ok"
    /\ Len(result.rest) = MaxExtra

\* An AckBundles script with sub-tag TwoByteVotes and an odd number of bytes after it.
C3_OddTwoBytes ==
    /\ fn = "parse_coinbase_script"
    /\ Tagged(M4_ACK_BUNDLES_TAG \o TWO_BYTES_TAG)
    /\ (Len(script) - M4HeadLen) % 2 = 1

\* C3 (as stated; refuted): a TwoByteVotes payload of odd length is a decode error.
C3_OddLengthFails == C3_OddTwoBytes => result.kind = "Err"

\* C3 (amended): a TwoByteVotes payload of odd length decodes to the TwoBytes
\* vector of its even-length prefix (big-endian), and the last byte comes back
\* as the unconsumed rest.
C3_OddByteReturned ==
    C3_OddTwoBytes =>
        /\ result.kind = "Ok"
        /\ result.value.type = "M4AckBundles"
        /\ result.value.m4_ack_bundles.variant = "TwoBytes"
        /\ LET upvotes == result.value.m4_ack_bundles.upvotes IN
           /\ Len(upvotes) = (Len(script) - M4HeadLen) \div 2
           /\ \A i \in 1..Len(upvotes) :
                 upvotes[i] = script[M4HeadLen + 2 * i - 1] * 256 + script[M4HeadLen + 2 * i]
        /\ result.rest = <<script[Len(script)]>>

C3_Witness ==
    /\ C3_OddTwoBytes
    /\ result.kind = "Ok"
    /\ Len(result.value.m4_ack_bundles.upvotes) >= 1
    /\ Len(result.rest) = 1

\* C4: a fixed-shape script cut short by one or more bytes, the OP_RETURN and
\* the tag left whole, is a decode error (and parse_m7_bmm_accept, which the
\* dispatcher never reaches, rejects the cut payload too).
C4_TruncationRejected ==
    /\ \A t \in {M2_ACK_SIDECHAIN_TAG, M3_PROPOSE_BUNDLE_TAG, M7_BMM_ACCEPT_TAG} :
          (fn = "parse_coinbase_script" /\ Tagged(t) /\ Len(script) < FixedLen)
              => result.kind = "Err"
    /\ (fn = "parse_coinbase_script" /\ Tagged(M7_BMM_ACCEPT_TAG) /\ Len(script) < FixedLen)
          => parse_m7_bmm_accept(Drop(1 + TagLen, script)).kind = "Err"
    /\ (fn = "parse_m8_bmm_request" /\ Tagged(M8_BMM_REQUEST_TAG) /\ Len(script) < M8Len)
          => result.kind = "Err"

C4_Witness ==
    /\ fn = "parse_coinbase_script"
    /\ Tagged(M3_PROPOSE_BUNDLE_TAG)
    /\ Len(script) = FixedLen - 1
    /\ result.kind = "Err"
    /\ result.code = "Eof"

\* C7: every call of parse_coinbase_script, parse_op_drivechain or
\* parse_m8_bmm_request returns Ok or Err; none panics.
C7_NeverPanics ==
    fn \in {"parse_coinbase_script", "parse_op_drivechain", "parse_m8_bmm_request"}
        => result.kind \in {"Ok", "Err"}

C7_Witness ==
    /\ fn = "parse_m8_bmm_request"
    /\ Tagged(M8_BMM_REQUEST_TAG)
    /\ Len(script) = M8Len - HashLen - 1
    /\ result.kind = "Err"

\* An AckBundles script with sub-tag RepeatPrevious or LeadingBy50 and bytes after it.
C9_TrailingAfter(subtag) ==
    /\ fn = "parse_coinbase_script"
    /\ Tagged(M4_ACK_BUNDLES_TAG \o subtag)
    /\ Len(script) > M4HeadLen

\* C9 (as stated; refuted): bytes after a RepeatPrevious or LeadingBy50
\* sub-tag are a decode error.
C9_ZeroRemaining ==
    \A subtag \in {REPEAT_PREVIOUS_TAG, LEADING_BY_50_TAG} :
        C9_TrailingAfter(subtag) => result.kind = "Err"

\* C9 (amended): bytes after a RepeatPrevious or LeadingBy50 sub-tag do not
\* fail the decode: it returns RepeatPrevious / LeadingBy50 and the bytes as
\* the unconsumed rest.
C9_RemainingReturned ==
    /\ C9_TrailingAfter(REPEAT_PREVIOUS_TAG) =>
          result = Ok(Drop(M4HeadLen, script), M4AckBundles(RepeatPrevious))
    /\ C9_TrailingAfter(LEADING_BY_50_TAG) =>
          result = Ok(Drop(M4HeadLen, script), M4AckBundles(LeadingBy50))

C9_Witness ==
    /\ C9_TrailingAfter(LEADING_BY_50_TAG)
    /\ result.kind = "Ok"
    /\ result.value = M4AckBundles(LeadingBy50)
    /\ Len(result.rest) >= 1

\* The script is exactly OP_NOP5 OP_PUSHBYTES_1 <sidechain_number> OP_TRUE.
C10_Marker == \E n \in 0..255 : script = <<OP_NOP5, OP_PUSHBYTES_1, n, OP_TRUE>>

\* C10 (as stated; refuted): parse_coinbase_script decodes the marker script
\* to an ActivationMarker carrying its sidechain_number.
C10_MarkerFirst ==
    (fn = "parse_coinbase_script" /\ C10_Marker) =>
        /\ result.kind = "Ok"
        /\ result.value = [type |-> "ActivationMarker", sidechain_number |-> script[3]]

\* C10 (amended): parse_coinbase_script rejects the marker script at its
\* first byte (it has no marker branch); the separate entry point
\* parse_op_drivechain yields the sidechain_number, the OP_TRUE byte left
\* in the unconsumed rest.
C10_MarkerSeparate ==
    /\ (fn = "parse_coinbase_script" /\ C10_Marker) => result = Err(script, "Tag")
    /\ (fn = "parse_op_drivechain" /\ C10_Marker) => result = Ok(<<OP_TRUE>>, script[3])

C10_Witness ==
    /\ fn = "parse_op_drivechain"
    /\ C10_Marker
    /\ result.kind = "Ok"
    /\ result.value = 255

----------------------------------------------------------------------------
(* The claim about the CoinbaseBuilder, checked under SpecBuilder.         *)

\* The message an append builds from its arguments.
CallMessage(c) ==
    CASE c.op = "propose_sidechain" -> M1ProposeSidechain(c.sidechain_number, c.data)
      [] c.op = "ack_sidechain" -> M2AckSidechain(c.sidechain_number, c.hash)
      [] c.op = "propose_bundle" -> M3ProposeBundle(c.sidechain_number, c.hash)
      [] c.op = "ack_bundles" -> M4AckBundles(c.m4_ack_bundles)
      [] c.op = "bmm_accept" -> M7BmmAccept(c.sidechain_number, c.hash)

\* C5: build() returns one output per append, in call order, the i-th with
\* value 0 and the encoding of the message built from the i-th append's arguments.
C5_BuilderOrdering ==
    built =>
        /\ Len(outputs) = Len(calls)
        /\ \A i \in 1..Len(calls) :
              /\ outputs[i].value = U64Zero
              /\ outputs[i].script_pubkey = Into(CallMessage(calls[i]))

C5_Witness ==
    /\ built
    /\ Len(calls) = 2
    /\ calls[1].op = "bmm_accept"
    /\ calls[2].op = "ack_bundles"
    /\ outputs[1].script_pubkey # outputs[2].script_pubkey

----------------------------------------------------------------------------
(* Claims about m6_to_id, checked under SpecM6.                            *)

\* Exact (unbounded) sum of u64 values: the low 64 bits, and whether 2^64 was reached.
RECURSIVE ExactSum(_)
ExactSum(values) ==
    IF Len(values) = 0 THEN Arith(U64Zero, FALSE)
    ELSE LET r == ExactSum(Tail(values)) IN
         Arith(wrapping_add(Head(values), r.value),
               r.overflow \/ add_overflows(Head(values), r.value))

RECURSIVE LessFrom(_, _, _)
LessFrom(a, b, i) ==
    IF i > Limbs THEN FALSE
    ELSE a[i] < b[i] \/ (a[i] = b[i] /\ LessFrom(a, b, i + 1))

\* a < b as 64-bit unsigned numbers.
Less(a, b) == LessFrom(a, b, 1)

OutputValues(tx) == [i \in 1..Len(tx.output) |-> tx.output[i].value]

\* T_prev < T_new + P: the fee F = T_prev - T_new - P would be negative.
FeeNegative ==
    LET total == ExactSum(OutputValues(m6)) IN
    total.overflow \/ Less(previous_treasury_utxo_total, total.value)

\* Eight big-endian bytes read as a u64.
FromBeBytes(b) == [i \in 1..Limbs |-> b[2 * i - 1] * 256 + b[2 * i]]

M6Called == m6_result # NoResult

\* C6 (as stated; refuted by the code): with T_prev < T_new + P the call
\* returns a structured arithmetic-underflow failure: no panic, no digest of a
\* wrapped F.
C6_UnderflowFailsLoudly ==
    (M6Called /\ Len(m6.output) >= 1 /\ FeeNegative) => m6_result.kind = "Err"

\* C8: with at least one output and T_prev >= T_new + P, the transaction that
\* is hashed has no inputs, the original outputs in order, and one more output
\* of value 0 whose script is OP_RETURN and eight big-endian bytes F with
\* F + T_new + P = T_prev.
C8_CommitmentConstruction ==
    (M6Called /\ Len(m6.output) >= 1 /\ ~FeeNegative) =>
        /\ m6_result.kind = "Ok"
        /\ LET tx == m6_result.value.txid_of
               n == Len(m6.output)
           IN
           /\ tx.input = <<>>
           /\ Len(tx.output) = n + 1
           /\ SubSeq(tx.output, 1, n) = m6.output
           /\ tx.output[n + 1].value = U64Zero
           /\ Len(tx.output[n + 1].script_pubkey) = 9
           /\ tx.output[n + 1].script_pubkey[1] = OP_RETURN
           /\ LET F == FromBeBytes(Drop(1, tx.output[n + 1].script_pubkey)) IN
              ExactSum(<<F>> \o OutputValues(m6))
                  = Arith(previous_treasury_utxo_total, FALSE)

C8_Witness ==
    /\ M6Called
    /\ ~FeeNegative
    /\ m6.input # <<>>
    /\ Len(m6.output) = 2
    /\ m6.output[2].value = U64(0, 0, 0, 1)
    /\ m6.output[1].value = U64(0, 0, 1, 0)
    /\ previous_treasury_utxo_total = U64(32768, 0, 0, 0)
    /\ m6_result.kind = "Ok"
    /\ m6_result.value.txid_of.output[3].script_pubkey
          = <<OP_RETURN, 127, 255, 255, 255, 255, 254, 255, 255>>

====
